---- MODULE Spec2Model ----
(***************************************************************************)
(* State-machine model of src/script.js: the notification widget with its  *)
(* three timers, the mobile navigation menu, the contact form handler and  *)
(* the scroll listeners.  Every event handler of the script is one action; *)
(* a click is dispatched to the listeners of its target and then to the    *)
(* document listener, as the browser does.                                 *)
(***************************************************************************)
EXTENDS Integers, Sequences, FiniteSets, TLC

VARIABLES
    notifs,        \* every element show_notification created, in creation order
    timers,        \* pending setTimeout callbacks, in creation order
    navToggle,     \* TRUE iff the const navToggle is a non-null element
    navMenu,       \* TRUE iff the const navMenu is a non-null element
    toggleActive,  \* navToggle.classList has 'active'
    menuActive,    \* navMenu.classList has 'active'
    innerWidth,    \* window.innerWidth
    fields,        \* the contact form's controls: name, email, message
    header,        \* TRUE iff document.querySelector('.header') finds an element
    scrolled,      \* header.classList has 'scrolled'
    scrollY,       \* window.scrollY (= window.pageYOffset)
    hero,          \* TRUE iff setup_parallax_effect found '.hero'
    heroTransform, \* hero.style.transform
    scrollTarget,  \* the `top` of the last window.scrollTo call, or "none"
    intersecting,  \* per observed element: what the observer last reported
    animateIn,     \* per observed element: its classList has 'animate-in'
    boot,          \* the page's markup and how far loading and the script got
    error,         \* TRUE iff a listener run by the last step threw an uncaught error
    lastEvent      \* the event the last step dispatched

notifVars == <<notifs, timers>>
navVars == <<navToggle, navMenu, toggleActive, menuActive, innerWidth>>
formVars == <<fields>>
scrollVars == <<header, scrolled, scrollY, hero, heroTransform, scrollTarget,
                intersecting, animateIn>>
vars == <<notifs, timers, navToggle, navMenu, toggleActive, menuActive,
          innerWidth, fields, header, scrolled, scrollY, hero, heroTransform,
          scrollTarget, intersecting, animateIn, boot, error, lastEvent>>

----------------------------------------------------------------------------
(* Bounds of the model *)

\* show_notification is called at most MaxShows times in a behaviour
MaxShows == 3
\* the close button is activated only while fewer than MaxPendingRemovals
\* removal timers of that notification are pending
MaxPendingRemovals == 2
\* the contact form is submitted at most MaxSubmits times in a behaviour
MaxSubmits == 2
\* is_valid_email is called on every string of at most MaxEmailLen characters
MaxEmailLen == 5

----------------------------------------------------------------------------
(* Program constants *)

AnimateInDelay == 100
ExitDelay == 300
AutoRemoveDelay == 5000
MobileBreakpoint == 768
ScrollThreshold == 100

HIDDEN == "translateX(100%)"
VISIBLE == "translateX(0)"
NotificationTypes == {"success", "error", "info"}

----------------------------------------------------------------------------
(* Helpers *)

Min(S) == CHOOSE x \in S : \A y \in S : x <= y

RemoveAt(s, k) == [i \in 1..(Len(s) - 1) |-> IF i < k THEN s[i] ELSE s[i + 1]]

NoEvent == [ev |-> "none", arg |-> "none"]

----------------------------------------------------------------------------
(* Loading: the page's markup, the script's top level, DOMContentLoaded *)

\* the optional regions of the page the script looks up at its top level
PageElements == {"toggle", "menu", "links", "form"}

\* element el of the markup has been parsed into the document
InDoc(el) == boot.parsed /\ el \in boot.markup

\* the page after loading, when the script was evaluated after the body
LoadedPage(markup) ==
    [ markup      |-> markup,
      parsed      |-> TRUE,
      evaluated   |-> TRUE,
      ready       |-> TRUE,
      navLinks    |-> "links" \in markup,
      contactForm |-> "form" \in markup ]

\* the parser reaches the end of the body: its elements are in the document
ParseBody ==
    /\ ~boot.parsed
    /\ boot' = [boot EXCEPT !.parsed = TRUE]
    /\ error' = FALSE
    /\ lastEvent' = [ev |-> "parsed", arg |-> "none"]
    /\ UNCHANGED <<notifVars, navVars, formVars, scrollVars>>

\* the script's top level (lines 6-10): each const is what querySelector
\* finds in the document at that moment; the listeners of lines 264 and 273
\* are registered
EvaluateScript ==
    /\ ~boot.evaluated
    /\ navToggle' = InDoc("toggle")
    /\ navMenu' = InDoc("menu")
    /\ boot' = [boot EXCEPT !.evaluated = TRUE,
                            !.navLinks = InDoc("links"),
                            !.contactForm = InDoc("form")]
    /\ error' = FALSE
    /\ lastEvent' = [ev |-> "evaluated", arg |-> "none"]
    /\ UNCHANGED <<toggleActive, menuActive, innerWidth, notifVars, formVars,
                   scrollVars>>

\* DOMContentLoaded (lines 264-268), fired once the body is parsed and the
\* script, a classic one, has run: the setup functions register their
\* listeners on what the consts hold
DOMContentLoaded ==
    /\ boot.parsed /\ boot.evaluated /\ ~boot.ready
    /\ boot' = [boot EXCEPT !.ready = TRUE]
    /\ error' = FALSE
    /\ lastEvent' = [ev |-> "DOMContentLoaded", arg |-> "none"]
    /\ UNCHANGED <<notifVars, navVars, formVars, scrollVars>>

----------------------------------------------------------------------------
(* show_notification, its close button and its timers *)

\* the indices of the notification elements that are in the document
Attached(ns) == {i \in 1..Len(ns) : ns[i].attached}

\* document.querySelector('.notification'): the first one in document order
\* (0 stands for null); document.body.appendChild keeps creation order
existing_notification(ns) ==
    IF Attached(ns) = {} THEN 0 ELSE Min(Attached(ns))

remove_existing_skipped(ns) == ns

\* if (existing_notification) existing_notification.remove()
remove_existing(ns) ==
    IF existing_notification(ns) # 0
    THEN [ns EXCEPT ![existing_notification(ns)].attached = FALSE]
    ELSE ns

\* document.createElement('div') with its className and style.cssText; the
\* message is text inside the element, which no listener reads
create_notification(message, type) ==
    [ type       |-> type,
      className  |-> <<"notification", "notification-", type>>,
      background |-> IF type = "success" THEN "#10b981" ELSE "#ef4444",
      transform  |-> HIDDEN,
      attached   |-> FALSE ]

Timer(cb, id, delay) == [cb |-> cb, id |-> id, delay |-> delay]

\* the state show_notification(message, type) leaves: the element appended to
\* the body, the animate-in and the auto-remove timers scheduled
show_notification(message, type) ==
    LET id == Len(notifs) + 1
        el == [create_notification(message, type) EXCEPT !.attached = TRUE]
    IN  /\ notifs' = Append(remove_existing(notifs), el)
        /\ timers' = timers \o << Timer("animate_in", id, AnimateInDelay),
                                  Timer("auto_remove", id, AutoRemoveDelay) >>

PendingRemovals(i) ==
    Cardinality({k \in 1..Len(timers) :
                    timers[k].cb = "remove" /\ timers[k].id = i})

DocumentClick_negations_dropped(inToggle, inMenu) ==
    IF navToggle /\ navMenu /\ inToggle /\ inMenu
    THEN /\ toggleActive' = FALSE
         /\ menuActive' = FALSE
    ELSE UNCHANGED <<toggleActive, menuActive>>

\* the click listener of the document (lines 42-47), registered only when
\* setup_mobile_navigation found both elements
DocumentClick(inToggle, inMenu) ==
    IF navToggle /\ navMenu /\ ~inToggle /\ ~inMenu
    THEN /\ toggleActive' = FALSE
         /\ menuActive' = FALSE
    ELSE UNCHANGED <<toggleActive, menuActive>>

\* a call of the exported show_notification from outside the script
CallShowNotification ==
    /\ Len(notifs) < MaxShows
    /\ \E type \in NotificationTypes : show_notification("text", type)
    /\ error' = FALSE
    /\ lastEvent' = [ev |-> "show", arg |-> Len(notifs) + 1]
    /\ UNCHANGED <<boot, navVars, formVars, scrollVars>>

\* a click on a project link whose href is '#' (lines 235-243), then the
\* document's click listener; a link with another href leaves the page
ClickProjectLink ==
    /\ Len(notifs) < MaxShows
    /\ show_notification("Project links will be updated with actual URLs", "info")
    /\ DocumentClick(FALSE, FALSE)
    /\ error' = FALSE
    /\ lastEvent' = [ev |-> "show", arg |-> Len(notifs) + 1]
    /\ UNCHANGED <<boot, navToggle, navMenu, innerWidth, formVars, scrollVars>>

close_listener_never_removes(i) ==
    /\ notifs' = [notifs EXCEPT ![i].transform = HIDDEN]
    /\ timers' = timers

\* the close button's click listener: hide, then remove after ExitDelay
close_listener(i) ==
    /\ notifs' = [notifs EXCEPT ![i].transform = HIDDEN]
    /\ timers' = Append(timers, Timer("remove", i, ExitDelay))

\* a click on the close button of notification i, which is in the document
ClickClose ==
    \E i \in Attached(notifs) :
        /\ PendingRemovals(i) < MaxPendingRemovals
        /\ close_listener(i)
        /\ DocumentClick(FALSE, FALSE)
        /\ error' = FALSE
        /\ lastEvent' = [ev |-> "close", arg |-> i]
        /\ UNCHANGED <<boot, navToggle, navMenu, innerWidth, formVars, scrollVars>>

\* the element a timer callback acts on: the `notification` of its closure
closure_latest(t) == Len(notifs)

closure_notification(t) == t.id

still_attached_unchecked(i) == TRUE

still_attached_inverted(i) == ~notifs[i].attached

\* if (notification.parentNode)
still_attached(i) == notifs[i].attached

\* the body of the callback of timer t; rest is the timer list without t
RunTimer(t, rest) ==
    LET i == closure_notification(t)
    IN  CASE t.cb = "animate_in" ->
               /\ notifs' = [notifs EXCEPT ![i].transform = VISIBLE]
               /\ timers' = rest
          [] t.cb = "remove" ->
               /\ notifs' = [notifs EXCEPT ![i].attached = FALSE]
               /\ timers' = rest
          [] t.cb = "auto_remove" ->
               IF still_attached(i)
               THEN /\ notifs' = [notifs EXCEPT ![i].transform = HIDDEN]
                    /\ timers' = Append(rest, Timer("remove", i, ExitDelay))
               ELSE /\ notifs' = notifs
                    /\ timers' = rest

\* setTimeout fires callbacks in the order of their deadlines: a timer cannot
\* fire while one created no later with a delay no longer is pending
Due(k) == \A j \in 1..(k - 1) : timers[j].delay > timers[k].delay

FireTimer ==
    \E k \in 1..Len(timers) :
        /\ Due(k)
        /\ RunTimer(timers[k], RemoveAt(timers, k))
        /\ error' = FALSE
        /\ lastEvent' = [ev |-> "timer", arg |-> timers[k]]
        /\ UNCHANGED <<boot, navVars, formVars, scrollVars>>

----------------------------------------------------------------------------
(* setup_mobile_navigation, setup_smooth_scrolling and the resize listener *)

\* inputs of the model
Widths == {480, 768, 769, 1024}
Hrefs == {"#about", "#missing", "#"}
OffsetTops == {0, 600}
HeaderHeights == {60, 80}
\* the hrefs of Hrefs that name a section of the page
Sections == {"#about"}

\* setup_mobile_navigation returned before registering anything unless both
\* elements were found
NavWired == navToggle /\ navMenu

toggle_listener_menu_only ==
    /\ toggleActive' = toggleActive
    /\ menuActive' = ~menuActive

\* the toggle button's click listener (lines 28-31)
toggle_listener ==
    /\ toggleActive' = ~toggleActive
    /\ menuActive' = ~menuActive

\* a click on the toggle button: its listener, then the document's, which
\* finds the target inside navToggle
ClickToggle ==
    /\ boot.ready /\ InDoc("toggle")
    /\ IF NavWired THEN toggle_listener
                   ELSE UNCHANGED <<toggleActive, menuActive>>
    /\ error' = FALSE
    /\ lastEvent' = [ev |-> "click", arg |-> "toggle"]
    /\ UNCHANGED <<boot, navToggle, navMenu, innerWidth, notifVars, formVars, scrollVars>>

\* document.querySelector(targetId): "found", "null", or "throws" for a
\* string that is no selector ('#' alone)
querySelector(href) ==
    CASE href \in Sections -> "found"
      [] href = "#" -> "throws"
      [] OTHER -> "null"

\* the smooth-scrolling listener of a link (lines 55-70): the new scroll
\* target and whether the listener threw
smooth_scroll(href, offsetTop, headerHeight) ==
    CASE querySelector(href) = "throws" -> [top |-> scrollTarget, threw |-> TRUE]
      [] querySelector(href) = "null" -> [top |-> scrollTarget, threw |-> FALSE]
      [] OTHER ->
           IF header
           THEN [top |-> offsetTop - headerHeight, threw |-> FALSE]
           ELSE [top |-> scrollTarget, threw |-> TRUE]

\* a click on a navigation link: the menu-closing listener (lines 35-38) and
\* the smooth-scrolling listener, both registered on the links the const
\* navLinks holds, then the document's; defaultPrevented is e.preventDefault()
ClickLink ==
    \E inMenu \in BOOLEAN, href \in Hrefs,
       offsetTop \in OffsetTops, headerHeight \in HeaderHeights :
        LET r == IF boot.navLinks
                 THEN smooth_scroll(href, offsetTop, headerHeight)
                 ELSE [top |-> scrollTarget, threw |-> FALSE]
        IN  /\ boot.ready /\ InDoc("links")
            /\ IF NavWired /\ boot.navLinks
               THEN /\ toggleActive' = FALSE
                    /\ menuActive' = FALSE
               ELSE DocumentClick(FALSE, inMenu)
            /\ scrollTarget' = r.top
            /\ error' = r.threw
            /\ lastEvent' = [ev |-> "click", arg |-> "link",
                             link |-> [href |-> href, offsetTop |-> offsetTop,
                                       headerHeight |-> headerHeight],
                             defaultPrevented |-> boot.navLinks]
            /\ UNCHANGED <<boot, navToggle, navMenu, innerWidth, notifVars, formVars,
                           header, scrolled, scrollY, hero, heroTransform,
                           intersecting, animateIn>>

\* a click inside the menu container, not on a link
ClickMenu ==
    /\ boot.ready /\ InDoc("menu")
    /\ DocumentClick(FALSE, TRUE)
    /\ error' = FALSE
    /\ lastEvent' = [ev |-> "click", arg |-> "menu"]
    /\ UNCHANGED <<boot, navToggle, navMenu, innerWidth, notifVars, formVars, scrollVars>>

\* a click anywhere outside the toggle button and the menu container
ClickOutside ==
    /\ DocumentClick(FALSE, FALSE)
    /\ error' = FALSE
    /\ lastEvent' = [ev |-> "click", arg |-> "outside"]
    /\ UNCHANGED <<boot, navToggle, navMenu, innerWidth, notifVars, formVars, scrollVars>>

\* the window's resize listener (lines 273-279), registered unconditionally:
\* navToggle.classList throws on null, and so does navMenu.classList after
\* the toggle's flag was removed
resize_listener(w) ==
    IF w > MobileBreakpoint
    THEN /\ toggleActive' = IF navToggle THEN FALSE ELSE toggleActive
         /\ menuActive' = IF navToggle /\ navMenu THEN FALSE ELSE menuActive
         /\ error' = ~(navToggle /\ navMenu)
    ELSE /\ UNCHANGED <<toggleActive, menuActive>>
         /\ error' = FALSE

Resize ==
    \E w \in Widths :
        /\ innerWidth' = w
        /\ resize_listener(w)
        /\ lastEvent' = [ev |-> "resize", arg |-> innerWidth]
        /\ UNCHANGED <<boot, navToggle, navMenu, notifVars, formVars, scrollVars>>

----------------------------------------------------------------------------
(* setup_form_handling and is_valid_email *)

\* strings are sequences of one-character strings
Str_A == <<"A">>
Str_hi == <<"h", "i">>
Str_a_b_co == <<"a", "@", "b", ".", "c", "o">>
Str_bad_email == <<"b", "a", "d", "-", "e", "m", "a", "i", "l">>
Str_a_at_b == <<"a", "@", "b">>
Str_sp_a_b_co == <<"a", " ", "@", "b", ".", "c">>
Str_a_com == <<"a", ".", "c", "o", "m">>
Str_at_b_co == <<"@", "b", ".", "c", "o">>
Str_a_b_c_co == <<"a", "@", "b", "@", "c", ".", "c", "o">>

NameInputs == {<<>>, Str_A}
EmailInputs == {<<>>, Str_a_b_co, Str_bad_email, Str_a_at_b, Str_sp_a_b_co}
MessageInputs == {<<>>, Str_hi}

\* \s of the regular expression
Whitespace == {" ", "\t", "\n", "\r"}

NonSpace(s, from, to) ==
    /\ from <= to
    /\ \A p \in from..to : s[p] \notin Whitespace

\* [^\s@]+ on s[from..to]
NonSpaceNonAt(s, from, to) ==
    /\ from <= to
    /\ \A p \in from..to : s[p] \notin Whitespace /\ s[p] # "@"

\* /^[^\s@]+@[^\s@]+\.[^\s@]+$/.test(email)
is_valid_email(email) ==
    \E i \in 1..Len(email) : \E j \in (i + 1)..Len(email) :
        /\ email[i] = "@"
        /\ email[j] = "."
        /\ NonSpaceNonAt(email, 1, i - 1)
        /\ NonSpaceNonAt(email, i + 1, j - 1)
        /\ NonSpaceNonAt(email, j + 1, Len(email))

\* the strings is_valid_email is called on: every string of at most
\* MaxEmailLen characters of EmailAlphabet, and the examples
EmailAlphabet == {"a", "@", ".", " "}
EmailStrings ==
    UNION {[1..n -> EmailAlphabet] : n \in 0..MaxEmailLen}
        \cup {Str_a_b_co, Str_a_at_b, Str_a_com, Str_at_b_co, Str_a_b_c_co,
               Str_bad_email, Str_sp_a_b_co}

\* a call of the exported is_valid_email; the result of a call is read
\* before the next call is made
CallIsValidEmail ==
    \E email \in EmailStrings :
        /\ lastEvent.ev # "is_valid_email"
        /\ lastEvent' = [ev |-> "is_valid_email",
                         arg |-> [email |-> email, result |-> is_valid_email(email)]]
        /\ error' = FALSE
        /\ UNCHANGED <<boot, notifVars, navVars, formVars, scrollVars>>

\* the values this.reset() restores: the controls' defaults in the markup
EmptyForm == [name |-> <<>>, email |-> <<>>, message |-> <<>>]

\* the user edits one control of the form
Input ==
    /\ \/ \E v \in NameInputs : fields' = [fields EXCEPT !.name = v]
       \/ \E v \in EmailInputs : fields' = [fields EXCEPT !.email = v]
       \/ \E v \in MessageInputs : fields' = [fields EXCEPT !.message = v]
    /\ error' = FALSE
    /\ lastEvent' = [ev |-> "input", arg |-> "none"]
    /\ UNCHANGED <<boot, notifVars, navVars, scrollVars>>

missing_field_message_forgotten(formData) ==
    formData.name = <<>> \/ formData.email = <<>>

\* !name || !email || !message
missing_field(formData) ==
    formData.name = <<>> \/ formData.email = <<>> \/ formData.message = <<>>

submit_listener_email_unchecked(formData) ==
    IF missing_field(formData)
    THEN /\ show_notification("Please fill in all fields", "error")
         /\ fields' = fields
    ELSE /\ show_notification("Thank you for your message!", "success")
         /\ fields' = EmptyForm

submit_listener_no_reset(formData) ==
    IF missing_field(formData)
    THEN /\ show_notification("Please fill in all fields", "error")
         /\ fields' = fields
    ELSE IF ~is_valid_email(formData.email)
    THEN /\ show_notification("Please enter a valid email address", "error")
         /\ fields' = fields
    ELSE /\ show_notification("Thank you for your message!", "success")
         /\ fields' = fields

\* the submit listener (lines 80-102); formData is new FormData(this)
submit_listener(formData) ==
    IF missing_field(formData)
    THEN /\ show_notification("Please fill in all fields", "error")
         /\ fields' = fields
    ELSE IF ~is_valid_email(formData.email)
    THEN /\ show_notification("Please enter a valid email address", "error")
         /\ fields' = fields
    ELSE /\ show_notification("Thank you for your message!", "success")
         /\ fields' = EmptyForm

\* a submission of the form: the submit listener when setup_form_handling
\* registered it, otherwise the browser's own submission
Submit ==
    /\ boot.ready /\ InDoc("form")
    /\ Len(notifs) < MaxSubmits
    /\ IF boot.contactForm THEN submit_listener(fields)
                           ELSE UNCHANGED <<notifs, timers, fields>>
    /\ error' = FALSE
    /\ lastEvent' = [ev |-> "submit", arg |-> fields,
                     intercepted |-> boot.contactForm]
    /\ UNCHANGED <<boot, navVars, scrollVars>>

----------------------------------------------------------------------------
(* setup_scroll_effects and setup_parallax_effect *)

ScrollOffsets == {-40, 0, 50, 100, 101, 150}

parallax_rate2_clamped(y) == IF y < 0 THEN 0 ELSE 0 - y

\* scrolled * -0.5, in half pixels
parallax_rate2(y) == 0 - y

header_scrolled_at_threshold(y) == y >= ScrollThreshold

\* the header listener (lines 110-117)
header_scrolled(y) == y > ScrollThreshold

\* a scroll event: the header listener, which throws when there is no
\* header, then the parallax listener when setup_parallax_effect found a hero
Scroll ==
    \E y \in ScrollOffsets :
        /\ scrollY' = y
        /\ scrolled' = IF header THEN header_scrolled(y) ELSE scrolled
        /\ error' = ~header
        /\ heroTransform' = IF hero THEN [translateY2 |-> parallax_rate2(y)]
                                    ELSE heroTransform
        /\ lastEvent' = [ev |-> "scroll", arg |-> y]
        /\ UNCHANGED <<boot, header, hero, scrollTarget, intersecting, animateIn,
                       notifVars, navVars, formVars>>

\* the elements matching '.project-card, .stat, .contact-method'
AnimateElements == {"project-card", "stat"}

observer_callback_follows(entries) ==
    [el \in AnimateElements |->
        IF el \in DOMAIN entries THEN entries[el] ELSE animateIn[el]]

\* the IntersectionObserver callback (lines 125-131) on the entries the
\* browser reports: a flag is added for an intersecting entry, never removed
observer_callback(entries) ==
    [el \in AnimateElements |->
        IF el \in DOMAIN entries /\ entries[el] THEN TRUE ELSE animateIn[el]]

\* the browser reports the elements of S, each with its isIntersecting
IntersectionChange ==
    \E S \in (SUBSET AnimateElements) \ {{}} : \E entries \in [S -> BOOLEAN] :
        /\ intersecting' = [el \in AnimateElements |->
                               IF el \in S THEN entries[el] ELSE intersecting[el]]
        /\ animateIn' = observer_callback(entries)
        /\ error' = FALSE
        /\ lastEvent' = [ev |-> "intersection", arg |-> entries]
        /\ UNCHANGED <<boot, header, scrolled, scrollY, hero, heroTransform, scrollTarget,
                       notifVars, navVars, formVars>>

----------------------------------------------------------------------------
(* Initial states and specifications *)

\* the page as the script finds it: each optional element present or not,
\* the class lists as the markup gives them, nothing shown, the form empty
Init ==
    /\ notifs = <<>>
    /\ timers = <<>>
    /\ navToggle \in BOOLEAN
    /\ navMenu \in BOOLEAN
    /\ toggleActive \in (IF navToggle THEN BOOLEAN ELSE {FALSE})
    /\ menuActive \in (IF navMenu THEN BOOLEAN ELSE {FALSE})
    /\ innerWidth \in Widths
    /\ fields = EmptyForm
    /\ header \in BOOLEAN
    /\ scrolled \in (IF header THEN BOOLEAN ELSE {FALSE})
    /\ scrollY = 0
    /\ hero \in BOOLEAN
    /\ heroTransform = "none"
    /\ scrollTarget = "none"
    /\ intersecting = [el \in AnimateElements |-> FALSE]
    /\ animateIn = [el \in AnimateElements |-> FALSE]
    /\ boot = LoadedPage((IF navToggle THEN {"toggle"} ELSE {})
                            \cup (IF navMenu THEN {"menu"} ELSE {})
                            \cup {"links", "form"})
    /\ error = FALSE
    /\ lastEvent = NoEvent

\* the page before anything of the body is parsed and before the script runs
InitLoading ==
    /\ notifs = <<>>
    /\ timers = <<>>
    /\ navToggle = FALSE
    /\ navMenu = FALSE
    /\ toggleActive = FALSE
    /\ menuActive = FALSE
    /\ innerWidth = 1024
    /\ fields = EmptyForm
    /\ header = TRUE
    /\ scrolled = FALSE
    /\ scrollY = 0
    /\ hero = TRUE
    /\ heroTransform = "none"
    /\ scrollTarget = "none"
    /\ intersecting = [el \in AnimateElements |-> FALSE]
    /\ animateIn = [el \in AnimateElements |-> FALSE]
    /\ boot \in [ markup : SUBSET PageElements, parsed : {FALSE},
                   evaluated : {FALSE}, ready : {FALSE},
                   navLinks : {FALSE}, contactForm : {FALSE} ]
    /\ error = FALSE
    /\ lastEvent = NoEvent

\* the page with every element present and the menu closed
FullPage ==
    /\ navToggle /\ navMenu /\ header /\ hero
    /\ ~toggleActive /\ ~menuActive /\ ~scrolled
    /\ innerWidth = 1024

InitFullPage == Init /\ FullPage

InitNav == Init /\ hero /\ ~scrolled

\* the same pages, the markup giving the toggle button and the menu
\* container the same 'active' flag
InitNavSynced == InitNav /\ toggleActive = menuActive

InitScroll == Init /\ navToggle /\ navMenu /\ ~toggleActive /\ ~menuActive
                   /\ innerWidth = 1024

NextNotification == ClickProjectLink \/ ClickClose \/ FireTimer

NextNav == ClickToggle \/ ClickLink \/ ClickMenu \/ ClickOutside \/ Resize

NextForm == Input \/ Submit \/ ClickClose \/ FireTimer

NextScroll == Scroll \/ IntersectionChange

NextLoading == ParseBody \/ EvaluateScript \/ DOMContentLoaded
                 \/ ClickToggle \/ ClickLink \/ Submit

Next == NextLoading \/ CallShowNotification \/ CallIsValidEmail \/ NextNotification \/ NextNav \/ NextForm \/ NextScroll

\* the notification widget, shown by clicks on project links
SpecNotification == InitFullPage /\ [][NextNotification]_vars

\* the same, with every scheduled timer eventually firing
SpecNotificationFair == SpecNotification /\ WF_vars(FireTimer)

\* the navigation menu on every page the script may find
SpecNav == InitNav /\ [][NextNav]_vars

\* the navigation menu on the pages whose two flags start equal
SpecNavSynced == InitNavSynced /\ [][NextNav]_vars

\* the contact form and the notification it shows
SpecForm == InitFullPage /\ [][NextForm]_vars

\* the scroll listeners and the intersection observer
SpecScroll == InitScroll /\ [][NextScroll]_vars

\* loading the page with the script before or after the body, then using it
SpecLoading == InitLoading /\ [][NextLoading]_vars

\* is_valid_email called on its own
SpecEmail == InitFullPage /\ [][CallIsValidEmail]_vars

\* every event on every page
Spec == Init /\ [][Next]_vars

----------------------------------------------------------------------------
(* Properties of the notification widget *)

Latest == Len(notifs)

AutoPending(i) ==
    \E k \in 1..Len(timers) : timers[k].cb = "auto_remove" /\ timers[k].id = i

AnimateInPending(i) ==
    \E k \in 1..Len(timers) : timers[k].cb = "animate_in" /\ timers[k].id = i

InDocument(i) == IF i <= Len(notifs) THEN notifs[i].attached ELSE FALSE

FiredTimer(e, cb, i) == e.ev = "timer" /\ e.arg.cb = cb /\ e.arg.id = i

\* C1: in every reachable state at most one notification element is attached
\* to the document, whatever the interleaving of shows, close clicks and
\* timer firings, also when a show replaces a notification that is in its
\* exit animation.
C1_AtMostOneNotification == Cardinality(Attached(notifs)) <= 1

\* a show has just replaced a notification that was shown, became visible,
\* was dismissed by two close clicks and was still waiting for its removal
C1_Witness ==
    /\ lastEvent.ev = "show"
    /\ Latest >= 2
    /\ Attached(notifs) = {Latest}
    /\ notifs[Latest - 1].transform = HIDDEN
    /\ ~AnimateInPending(Latest - 1)
    /\ AutoPending(Latest - 1)
    /\ PendingRemovals(Latest - 1) >= 2

\* C2: after a second show the only notification in the document is the one
\* the latest show created: it leaves the document only when a removal timer
\* of its own fires (or a later show replaces it), and a timer of an earlier
\* notification, whenever it fires, changes neither its attachment nor its
\* visual state.
C2_LatestShowStands ==
    /\ [](Attached(notifs) \subseteq {Latest})
    /\ [][Latest' = Latest /\ Latest >= 1 =>
            /\ (notifs[Latest].attached /\ ~notifs'[Latest].attached
                    => FiredTimer(lastEvent', "remove", Latest))
            /\ (lastEvent'.ev = "timer" /\ lastEvent'.arg.id # Latest
                    => notifs'[Latest] = notifs[Latest])]_vars

\* the first timer of the first notification fires after the second show,
\* with the second notification in the document
C2_Witness ==
    /\ Latest = 2
    /\ FiredTimer(lastEvent, "animate_in", 1)
    /\ ~notifs[1].attached
    /\ notifs[2].attached

\* C3: a close click on an attached notification hides it at once and
\* schedules its removal; when a removal timer fires the notification is out
\* of the document; a second close click before removal raises no error and
\* the removal timer it adds changes nothing when it fires on a notification
\* that is already removed.
C3_ManualDismissal ==
    /\ [](lastEvent.ev = "close" =>
            /\ notifs[lastEvent.arg].transform = HIDDEN
            /\ PendingRemovals(lastEvent.arg) >= 1
            /\ ~error)
    /\ [](lastEvent.ev = "timer" /\ lastEvent.arg.cb = "remove" =>
            /\ ~notifs[lastEvent.arg.id].attached
            /\ ~error)
    /\ [][\A i \in 1..Latest :
            FiredTimer(lastEvent', "remove", i) /\ ~notifs[i].attached
                => notifs' = notifs /\ Len(timers') = Len(timers) - 1]_vars

\* a notification, closed twice by the user, has been removed by the first
\* removal timer while the second one is pending
C3_Witness ==
    \E i \in 1..Latest :
        /\ FiredTimer(lastEvent, "remove", i)
        /\ ~notifs[i].attached
        /\ notifs[i].transform = HIDDEN
        /\ AutoPending(i)
        /\ PendingRemovals(i) >= 1

\* C4: with timers firing fairly every notification in the document
\* eventually leaves it; one that is neither closed by the user nor replaced
\* stays attached while its 5000 ms timer is pending; that timer, fired on an
\* attached notification, hides it and schedules its removal, and fired on a
\* removed one changes nothing and schedules nothing.
C4_AutoDismissal ==
    /\ \A i \in 1..MaxShows :
          InDocument(i) ~> ~InDocument(i)
    /\ [][\A i \in 1..Latest :
            /\ (notifs[i].attached /\ AutoPending(i) /\ PendingRemovals(i) = 0
                  /\ Latest' = Latest => notifs'[i].attached)
            /\ (FiredTimer(lastEvent', "auto_remove", i) /\ notifs[i].attached
                  => /\ notifs'[i].transform = HIDDEN
                     /\ notifs'[i].attached
                     /\ PendingRemovals(i)' = PendingRemovals(i) + 1)
            /\ (FiredTimer(lastEvent', "auto_remove", i) /\ ~notifs[i].attached
                  => notifs' = notifs /\ Len(timers') = Len(timers) - 1)]_vars
    /\ [](lastEvent.ev = "timer" /\ lastEvent.arg.cb = "remove" =>
            ~notifs[lastEvent.arg.id].attached)

\* the 5000 ms timer of a notification that was never closed nor replaced
\* has just fired: the notification is hidden, attached, with one removal
\* pending
C4_Witness ==
    /\ Latest >= 1
    /\ FiredTimer(lastEvent, "auto_remove", Latest)
    /\ notifs[Latest].attached
    /\ notifs[Latest].transform = HIDDEN
    /\ PendingRemovals(Latest) = 1

----------------------------------------------------------------------------
(* Properties of the navigation menu *)

ClickedOn(e, target) == e.ev = "click" /\ e.arg = target

\* C5: with the toggle and the menu present, the menu is closed after every
\* outside click, after every link click, after a toggle click from the open
\* state and after a resize that takes the width from at most 768 to more
\* than 768; and it goes from closed to open only by a toggle click.
C5_MenuTransitions ==
    /\ [](NavWired /\ ClickedOn(lastEvent, "outside") => ~menuActive)
    /\ [](NavWired /\ ClickedOn(lastEvent, "link") => ~menuActive)
    /\ [](NavWired /\ lastEvent.ev = "resize" /\ lastEvent.arg <= 768
             /\ innerWidth > 768 => ~menuActive)
    /\ [][NavWired /\ menuActive /\ ClickedOn(lastEvent', "toggle")
             => ~menuActive']_vars
    /\ [][NavWired /\ ~menuActive /\ menuActive'
             => ClickedOn(lastEvent', "toggle")]_vars

\* the window has just been widened from 768 to 769 pixels on a page with
\* both elements, and the menu is closed
C5_Witness ==
    /\ NavWired
    /\ lastEvent.ev = "resize"
    /\ lastEvent.arg = 768
    /\ innerWidth = 769
    /\ ~menuActive

\* C9: when the toggle or the menu element is absent, no click on the toggle,
\* a link, the menu or elsewhere and no resize at any width changes the
\* menu's flags, and no click listener of the menu and no resize raises an
\* error.
C9_InertWhenAbsent ==
    [][~NavWired =>
          /\ toggleActive' = toggleActive
          /\ menuActive' = menuActive
          /\ (lastEvent'.ev = "resize" => ~error')
          /\ (lastEvent'.ev = "click" /\ lastEvent'.arg # "link" => ~error')]_vars

----------------------------------------------------------------------------
(* Properties of the contact form *)

Submitted(e) == e.ev = "submit"

AllFilled(formData) ==
    formData.name # <<>> /\ formData.email # <<>> /\ formData.message # <<>>

\* C6: after a submission with name, email or message empty, whatever the
\* other fields hold, the notification in the document is of the error kind,
\* none of the success kind is shown, and every field keeps its value.
C6_MissingField ==
    Submitted(lastEvent) /\ ~AllFilled(lastEvent.arg) =>
        /\ Attached(notifs) = {Latest}
        /\ notifs[Latest].type = "error"
        /\ \A i \in Attached(notifs) : notifs[i].type # "success"
        /\ fields = lastEvent.arg

\* a submission with a name, a well-formed email and no message, made while
\* an earlier notification existed
C6_Witness ==
    /\ Submitted(lastEvent)
    /\ lastEvent.arg.name = Str_A
    /\ lastEvent.arg.email = Str_a_b_co
    /\ lastEvent.arg.message = <<>>
    /\ Latest = 2
    /\ notifs[Latest].type = "error"

\* C7: after a submission with the three fields filled and an email that
\* is_valid_email rejects, exactly one notification is in the document, it is
\* of the error kind, and the form keeps its values.
C7_InvalidEmail ==
    Submitted(lastEvent) /\ AllFilled(lastEvent.arg)
        /\ ~is_valid_email(lastEvent.arg.email) =>
        /\ Cardinality(Attached(notifs)) = 1
        /\ \A i \in Attached(notifs) : i = Latest /\ notifs[i].type = "error"
        /\ fields = lastEvent.arg

\* the submission name "A", email "bad-email", message "hi"
C7_Witness ==
    /\ Submitted(lastEvent)
    /\ lastEvent.arg = [name |-> Str_A, email |-> Str_bad_email, message |-> Str_hi]
    /\ fields = lastEvent.arg
    /\ notifs[Latest].type = "error"

\* C8: after a submission with the three fields filled and an email that
\* is_valid_email accepts, exactly one notification is in the document, the
\* success notification this submission created, and every field is empty.
C8_ValidSubmission ==
    Submitted(lastEvent) /\ AllFilled(lastEvent.arg)
        /\ is_valid_email(lastEvent.arg.email) =>
        /\ Cardinality(Attached(notifs)) = 1
        /\ \A i \in Attached(notifs) : i = Latest /\ notifs[i].type = "success"
        /\ fields = [name |-> <<>>, email |-> <<>>, message |-> <<>>]

\* the submission name "A", email "a@b.co", message "hi", made after an
\* earlier submission had shown an error
C8_Witness ==
    /\ Submitted(lastEvent)
    /\ lastEvent.arg = [name |-> Str_A, email |-> Str_a_b_co, message |-> Str_hi]
    /\ Latest = 2
    /\ notifs[1].type = "error"
    /\ notifs[2].type = "success"
    /\ fields.name = <<>>

----------------------------------------------------------------------------
(* Properties of the scroll listeners *)

\* C10: with the header present, after every scroll event the header's
\* 'scrolled' flag is set if and only if the scroll offset is greater than
\* 100, whatever the flag was before.
C10_HeaderScrolled ==
    header /\ lastEvent.ev = "scroll" => (scrolled <=> scrollY > 100)

\* a scroll to exactly 100 leaves the flag off
C10_Witness ==
    /\ header
    /\ lastEvent.ev = "scroll"
    /\ scrollY = 100
    /\ ~scrolled

----------------------------------------------------------------------------
(* Properties of is_valid_email *)

Count(s, c) == Cardinality({p \in 1..Len(s) : s[p] = c})

\* no whitespace, exactly one '@' with a character before it, and after it
\* a '.' with a character on each side
WellFormedEmail(s) ==
    /\ \A p \in 1..Len(s) : s[p] \notin {" ", "\t", "\n", "\r"}
    /\ Count(s, "@") = 1
    /\ LET at == CHOOSE p \in 1..Len(s) : s[p] = "@"
       IN  /\ at > 1
           /\ \E dot \in (at + 2)..(Len(s) - 1) : s[dot] = "."

\* C11: is_valid_email(text) is true exactly when text has no whitespace,
\* exactly one '@' with at least one character before it, and after the '@'
\* a '.' with at least one character before and after it; it accepts
\* "a@b.co" and rejects "a@b", "a.com", "@b.co" and "a@b@c.co".
C11_EmailShape ==
    lastEvent.ev = "is_valid_email" =>
        /\ lastEvent.arg.result <=> WellFormedEmail(lastEvent.arg.email)
        /\ lastEvent.arg.email = Str_a_b_co => lastEvent.arg.result
        /\ lastEvent.arg.email \in {Str_a_at_b, Str_a_com, Str_at_b_co, Str_a_b_c_co}
              => ~lastEvent.arg.result

\* "a@b@c.co" has been rejected
C11_Witness ==
    /\ lastEvent.ev = "is_valid_email"
    /\ lastEvent.arg.email = Str_a_b_c_co
    /\ ~lastEvent.arg.result

----------------------------------------------------------------------------
(* Properties of the parallax effect and of the fade-in flags *)

\* C12: with the hero present, after every scroll event the hero's vertical
\* translation is -0.5 times the scroll offset: twice the translation plus
\* the offset is zero, for negative offsets too, without clamping and
\* whatever the earlier scroll events were.
C12_ParallaxRate ==
    hero /\ lastEvent.ev = "scroll" =>
        /\ heroTransform.translateY2 + scrollY = 0
        /\ lastEvent.arg = scrollY

\* an overscroll to -40 has moved the hero down by 20 pixels
C12_Witness ==
    /\ hero
    /\ lastEvent.ev = "scroll"
    /\ scrollY = -40
    /\ heroTransform.translateY2 = 40

\* C16: an observed element gets the 'animate-in' flag when the observer
\* reports it as intersecting; no later report (also one of the element
\* leaving the viewport), scroll or other event removes the flag; and an
\* element gets the flag only by a report of it as intersecting.
C16_FadeInPermanent ==
    /\ [](lastEvent.ev = "intersection" =>
            \A el \in DOMAIN lastEvent.arg : lastEvent.arg[el] => animateIn[el])
    /\ [][\A el \in AnimateElements : animateIn[el] => animateIn'[el]]_vars
    /\ [][\A el \in AnimateElements :
            ~animateIn[el] /\ animateIn'[el] =>
                /\ lastEvent'.ev = "intersection"
                /\ el \in DOMAIN lastEvent'.arg
                /\ lastEvent'.arg[el]]_vars

\* the observer has just reported a flagged element as no longer
\* intersecting, and the flag is still there
C16_Witness ==
    \E el \in AnimateElements :
        /\ lastEvent.ev = "intersection"
        /\ el \in DOMAIN lastEvent.arg
        /\ ~lastEvent.arg[el]
        /\ ~intersecting[el]
        /\ animateIn[el]

----------------------------------------------------------------------------
(* Further properties of the notification widget *)

\* a close click or the 5000 ms timer has hidden notification i, which waits
\* in the document for its removal
Dismissing(i) == notifs[i].attached /\ PendingRemovals(i) >= 1

\* C13: a notification that no later show replaced, once a manual or
\* automatic dismissal has hidden it, never becomes visible again, and it is
\* hidden at the moment a removal timer takes it out of the document; also
\* when the close click comes before the 100 ms animate-in timer has fired.
C13_LifecycleOrder ==
    /\ [][Latest >= 1 /\ Latest' = Latest /\ Dismissing(Latest)
            /\ notifs[Latest].transform = HIDDEN
                => notifs'[Latest].transform = HIDDEN]_vars
    /\ [](Latest >= 1 /\ FiredTimer(lastEvent, "remove", Latest)
                => notifs[Latest].transform = HIDDEN)

\* C14: the 5000 ms timer of a manually dismissed notification still fires.
\* Fired after that notification left the document, it changes no
\* notification, schedules nothing and raises no error; fired while the
\* notification is still in the document waiting for its removal, it leaves
\* it attached and adds one removal timer behind the pending ones, the next
\* removal timer to fire takes the notification out, and a removal timer
\* fired on a removed notification changes nothing.
C14_AutoTimerAfterManualDismissal ==
    /\ [][\A i \in 1..Latest :
            FiredTimer(lastEvent', "auto_remove", i) /\ ~notifs[i].attached =>
                /\ notifs' = notifs
                /\ timers' = SelectSeq(timers, LAMBDA t : t # lastEvent'.arg)
                /\ ~error']_vars
    /\ [][\A i \in 1..Latest :
            FiredTimer(lastEvent', "auto_remove", i) /\ Dismissing(i) =>
                /\ notifs'[i].attached
                /\ \A j \in 1..Latest : j # i => notifs'[j] = notifs[j]
                /\ PendingRemovals(i)' = PendingRemovals(i) + 1
                /\ timers'[Len(timers')] = Timer("remove", i, ExitDelay)
                /\ ~error']_vars
    /\ [][\A i \in 1..Latest :
            FiredTimer(lastEvent', "remove", i) =>
                /\ ~notifs'[i].attached
                /\ (~notifs[i].attached => notifs' = notifs)
                /\ \A j \in 1..Latest : j # i => notifs'[j] = notifs[j]
                /\ ~error']_vars

\* the 5000 ms timer of the latest notification fires after a close click
\* and its removal timer took that notification out of the document
C14_Witness ==
    /\ Latest >= 1
    /\ FiredTimer(lastEvent, "auto_remove", Latest)
    /\ ~notifs[Latest].attached
    /\ notifs[Latest].transform = HIDDEN
    /\ PendingRemovals(Latest) = 0

----------------------------------------------------------------------------
(* Properties of smooth scrolling *)

\* C17: with the header present, a click on any navigation link suppresses
\* the default navigation and raises no error; when the link's target
\* section exists the scroll target becomes the target's top offset minus
\* the header's height, and when it does not the scroll target is unchanged.
C17_SmoothScroll ==
    [][ClickedOn(lastEvent', "link") /\ header =>
          /\ lastEvent'.defaultPrevented
          /\ ~error'
          /\ (lastEvent'.link.href \in Sections =>
                 scrollTarget' = lastEvent'.link.offsetTop
                                    - lastEvent'.link.headerHeight)
          /\ (lastEvent'.link.href \notin Sections =>
                 scrollTarget' = scrollTarget)]_vars

\* C19: when the toggle button and the menu container start with the same
\* 'active' flag, the two flags are equal in every state that toggle clicks,
\* link clicks, menu clicks, outside clicks and resizes can reach.
C19_FlagsEqual == toggleActive = menuActive

\* the menu was opened by a click on the toggle button of a wired page
C19_Witness ==
    /\ NavWired
    /\ ClickedOn(lastEvent, "toggle")
    /\ toggleActive
    /\ menuActive

----------------------------------------------------------------------------
(* Properties of the notification's colour *)

\* the background show_notification gives a notification of each type
AffirmativeColor == "#10b981"
WarningColor == "#ef4444"

\* C18: a success notification has the affirmative colour, an error
\* notification the warning colour, and an info notification neither.
C18_ThreeVariants ==
    \A i \in 1..Len(notifs) :
        /\ notifs[i].type = "success" => notifs[i].background = AffirmativeColor
        /\ notifs[i].type = "error" => notifs[i].background = WarningColor
        /\ notifs[i].type = "info" =>
              notifs[i].background \notin {AffirmativeColor, WarningColor}

----------------------------------------------------------------------------
(* Properties of loading *)

\* C15: once DOMContentLoaded has fired, whether the script ran before or
\* after the body was parsed, the controllers of the elements in the
\* document are wired: a toggle click flips the menu, a link click is
\* intercepted and closes the menu, a form submission is intercepted and
\* answered with a notification.
C15_WiredWhenReady ==
    [][boot.ready =>
          /\ (ClickedOn(lastEvent', "toggle") /\ InDoc("menu")
                 => menuActive' = ~menuActive)
          /\ (ClickedOn(lastEvent', "link")
                 => /\ lastEvent'.defaultPrevented
                    /\ (InDoc("toggle") /\ InDoc("menu") => ~menuActive'))
          /\ (lastEvent'.ev = "submit"
                 => /\ lastEvent'.intercepted
                    /\ Len(notifs') = Len(notifs) + 1)]_vars

====
